---------------------------- MODULE Spec2Model ----------------------------
(***************************************************************************)
(* DNA purification protocol for the OT-2 pipetting robot                  *)
(* (src/DNA_cleaning/dna_cleaning_blueprint.py).                           *)
(*                                                                         *)
(* Two threads are modelled: the Sequencer (the body of run) and the Pause *)
(* Monitor (check_pause, started as a thread by run).  The door of the     *)
(* enclosure and the robot driver are the environment.                     *)
(*                                                                         *)
(* Units: volumes are whole microlitres, heights are tenths of a           *)
(* millimetre (0.6 mm is 6, 1 mm is 10).  The dispense heights of          *)
(* stepwise_dispense are whole micrometres, of volumes in nanolitres.      *)
(***************************************************************************)
EXTENDS Integers, Sequences, FiniteSets, TLC

VARIABLES
    no_samples,     \* user input, line 281
    cleanings,      \* user input, line 284
    columns,        \* line 153; 0 before it is computed
    i, j, k,        \* the loop variables of run; 0 while unbound
    seqPc,          \* the statement of run the Sequencer is at
    sub,            \* index inside a run of consecutive aspirates
    fault,          \* "none", or why run was left by an exception
    faultAt,        \* the statement that raised
    done,           \* global done
    paused,         \* global paused
    monPc,          \* the statement of check_pause the Monitor thread is at
    depth,          \* nested check_pause frames on the Monitor's stack
    chk,            \* history of the current check: what it saw and called
    door_closed,    \* protocol.door_closed, the enclosure sensor
    driverPaused,   \* the driver's pause state (protocol.pause / resume)
    outstanding,    \* history: the Monitor's pause calls minus its resume calls
    mainAlive,      \* threading.main_thread().is_alive()
    magnet,         \* mag_deck: "engaged" or "disengaged"
    tip,            \* per pipette: where the attached tip came from
    racks,          \* per tip rack and column: what the position holds
    flow_rate,      \* per pipette: aspirate and dispense flow rates
    clearance,      \* p300.well_bottom_clearance
    lastOp,         \* history: the last robot statement the Sequencer issued
    issued,         \* history: how many robot statements have returned
    visited,        \* history: per loop, the columns whose iteration started
    sd              \* history: the last stepwise_dispense call and its result

vars == << no_samples, cleanings, columns, i, j, k, seqPc, sub, fault, faultAt,
           done, paused, monPc, depth, chk, door_closed, driverPaused,
           outstanding, mainAlive, magnet, tip, racks, flow_rate, clearance,
           lastOp, issued,
           visited, sd >>

params   == << no_samples, cleanings >>
loopVars == << columns, i, j, k >>
monVars  == << paused, monPc, depth, chk, driverPaused, outstanding >>
envVars  == << door_closed, mainAlive >>
robot    == << magnet, tip, racks, flow_rate, clearance >>

-----------------------------------------------------------------------------
(* Bounds of the model *)

\* wash_cycle_count ranges over 1..MaxCleanings
MaxCleanings == 2

\* nested check_pause frames the Monitor's stack holds before the interpreter
\* raises RecursionError (the interpreter's limit, scaled down)
MaxDepth == 2

\* stepwise_dispense is applied to volumes 1..MaxVolume and steps 1..MaxSteps
MaxVolume == 12
MaxSteps == 10

-----------------------------------------------------------------------------
(* Program constants *)

\* the sample count the script is distributed with
DefaultSamples == 20
vol_samples == 20
\* ratio, in tenths
ratio_tenths == 8
vol_EB == 15

\* wells of one column, taken together by a multi-channel pipette
WellsPerColumn == 8
\* columns of a 96-well plate
PlateColumns == 12

\* well_bottom_clearance restored by custom_mix
DefaultClearance == 10

\* the floats volume/steps is computed in have 53 significant bits: a leading
\* one and FractionLimbs digits of LimbBits bits
LimbBits == 13
FractionLimbs == 4

\* sample counts the run is started with: both ends of every column, and the
\* script's default of 20
SampleCounts ==
    {n \in 1..(PlateColumns * WellsPerColumn) : n % WellsPerColumn \in {0, 1}}
        \cup {DefaultSamples}

\* sample counts of the runs in which the door is opened and closed
RunSamples == {WellsPerColumn, 2 * WellsPerColumn, DefaultSamples}

volBeads == (vol_samples * ratio_tenths) \div 10
v_tot == volBeads + vol_samples

P300 == [kind |-> "pipette", name |-> "p300"]
P10 == [kind |-> "pipette", name |-> "p10"]
Well(lw, c) == [kind |-> "well", lw |-> lw, col |-> c]

Phases == << "Setup", "BeadBinding", "MagneticCapture", "SupernatantRemoval",
             "WashCycles", "Elution", "ReleaseTransfer", "Finalization" >>

Loops == {"bead", "supernatant", "washAdd", "washRemove", "elution", "transfer"}

\* A robot statement: n is its repetitions, steps or seconds, xy its diagonal
\* offset from the well's centre
Op(phase, op, pip, lw, col, vol, z) ==
    [phase |-> phase, op |-> op, pip |-> pip, lw |-> lw, col |-> col,
     vol |-> vol, z |-> z, n |-> 0, xy |-> 0]

NoOp == Op("Setup", "none", "-", "-", 0, 0, 0)

NoTip == [from |-> "none", col |-> 0]

\* the tip racks on the deck, lines 138-144
RackNames ==
    {"tiprack_7", "tiprack_8", "tiprack_9", "tiprack_10", "tiprack_11"}

\* tip_racks=[tiprack_7, tiprack_8, tiprack_9, tiprack_10]
TipRacks_WashRackFirst(pip) ==
    IF pip = "p300"
    THEN << "tiprack_7", "tiprack_8", "tiprack_9", "tiprack_10" >>
    ELSE << "tiprack_11" >>

\* the racks a pipette takes its tips from when pick_up_tip names no
\* position, in the order it uses them up (lines 142 and 145)
TipRacks(pip) ==
    IF pip = "p300"
    THEN << "tiprack_8", "tiprack_9", "tiprack_10", "tiprack_7" >>
    ELSE << "tiprack_11" >>

\* a check that has read nothing and called nothing yet
NewCheck(p) == [paused0 |-> p, reads |-> << >>, calls |-> << >>]

NoCheck == NewCheck(FALSE)

-----------------------------------------------------------------------------
(* math.ceil(no_samples / 8), line 153 *)

\* the quotient rounded down instead of up
CeilDiv_RoundsDown(n, d) == n \div d

CeilDiv(n, d) == IF n % d = 0 THEN n \div d ELSE (n \div d) + 1

ColumnCount(n) == CeilDiv(n, WellsPerColumn)

-----------------------------------------------------------------------------
(* volume / steps, line 78: the quotient of two positive integers as a     *)
(* binary float of 53 significant bits, rounded to nearest, ties to even.  *)
(* The float [m, e] has the value M * 2^(e - 52), where M is the number    *)
(* whose digits in base 2^13 are m: a leading 1 and four digits of the     *)
(* fraction.                                                               *)

RECURSIVE Pow2(_)
Pow2(n) == IF n = 0 THEN 1 ELSE 2 * Pow2(n - 1)

Base == Pow2(LimbBits)

\* the a with d * 2^a <= n < d * 2^(a+1), for n >= d
RECURSIVE ShiftUp(_, _, _)
ShiftUp(n, d, a) == IF 2 * Pow2(a) * d > n THEN a ELSE ShiftUp(n, d, a + 1)

\* the b with d <= n * 2^b < 2 * d, for n < d
RECURSIVE ShiftDown(_, _, _)
ShiftDown(n, d, b) == IF Pow2(b) * n >= d THEN b ELSE ShiftDown(n, d, b + 1)

\* long division of r / d, r < d: the next digits of the quotient and the
\* remainder left after them
RECURSIVE LongDiv(_, _, _, _)
LongDiv(r, d, digits, count) ==
    IF count = 0 THEN [digits |-> digits, rem |-> r]
    ELSE LongDiv((r * Base) % d, d, Append(digits, (r * Base) \div d), count - 1)

\* digits + 1 in the last place; the leading digit becomes 2 when the carry
\* runs through
RECURSIVE Increment(_, _)
Increment(digits, idx) ==
    IF idx = 1 \/ digits[idx] < Base - 1
    THEN [digits EXCEPT ![idx] = @ + 1]
    ELSE Increment([digits EXCEPT ![idx] = 0], idx - 1)

\* the quotient cut off after 53 bits instead of rounded
FloatDiv_Truncates(n, d) ==
    LET lead == IF n >= d THEN ShiftUp(n, d, 0) ELSE 0 - ShiftDown(n, d, 0)
        num == IF n >= d THEN n ELSE n * Pow2(0 - lead)
        den == IF n >= d THEN d * Pow2(lead) ELSE d
    IN  [m |-> LongDiv(num - den, den, << 1 >>, FractionLimbs).digits,
         e |-> lead]

FloatDiv(n, d) ==
    LET lead == IF n >= d THEN ShiftUp(n, d, 0) ELSE 0 - ShiftDown(n, d, 0)
        num == IF n >= d THEN n ELSE n * Pow2(0 - lead)
        den == IF n >= d THEN d * Pow2(lead) ELSE d
        q == LongDiv(num - den, den, << 1 >>, FractionLimbs)
        odd == q.digits[FractionLimbs + 1] % 2 = 1
        up == (2 * q.rem > den) \/ (2 * q.rem = den /\ odd)
        inc == Increment(q.digits, FractionLimbs + 1)
    IN  IF ~up THEN [m |-> q.digits, e |-> lead]
        ELSE IF inc[1] = 1 THEN [m |-> inc, e |-> lead]
        ELSE [m |-> [inc EXCEPT ![1] = 1], e |-> lead + 1]

\* the digits of m * n, the leading one not reduced
RECURSIVE TimesInt(_, _, _, _)
TimesInt(m, n, idx, carry) ==
    IF idx = 1 THEN << m[1] * n + carry >>
    ELSE TimesInt(m, n, idx - 1, (m[idx] * n + carry) \div Base)
            \o << (m[idx] * n + carry) % Base >>

\* the digits cut off after the last t bits, and those bits
RightShift(digits, t) ==
    [m |-> [x \in 1..Len(digits) |->
                IF x = 1 THEN digits[1] \div Pow2(t)
                ELSE (digits[x] + (digits[x - 1] % Pow2(t)) * Base) \div Pow2(t)],
     rem |-> digits[Len(digits)] % Pow2(t)]

\* the t with 2^t <= n < 2^(t+1)
RECURSIVE Log2(_)
Log2(n) == IF n < 2 THEN 0 ELSE 1 + Log2(n \div 2)

\* (i+1)*step_volume, line 80: the float f times the positive integer n,
\* rounded to nearest, ties to even
TimesFloat(n, f) ==
    LET p == TimesInt(f.m, n, FractionLimbs + 1, 0)
        t == Log2(p[1])
        q == RightShift(p, t)
        odd == q.m[FractionLimbs + 1] % 2 = 1
        up == (2 * q.rem > Pow2(t)) \/ (2 * q.rem = Pow2(t) /\ odd)
        inc == Increment(q.m, FractionLimbs + 1)
    IN  IF ~up THEN [m |-> q.m, e |-> f.e + t]
        ELSE IF inc[1] = 1 THEN [m |-> inc, e |-> f.e + t]
        ELSE [m |-> [inc EXCEPT ![1] = 1], e |-> f.e + t + 1]

\* the whole nanolitres in f microlitres, for f < 256
Nanolitres(f) ==
    IF f.e >= 0
    THEN TimesInt(f.m, 1000 * Pow2(f.e), FractionLimbs + 1, 0)[1]
    ELSE TimesInt(f.m, 1000, FractionLimbs + 1, 0)[1] \div Pow2(0 - f.e)

\* the whole part of the square root of x >= 1 by Newton's iteration from a
\* guess that is not below it
RECURSIVE Isqrt(_, _)
Isqrt(x, guess) ==
    LET better == (guess + x \div guess) \div 2
    IN  IF better >= guess THEN guess ELSE Isqrt(x, better)

\* the other root of the polynomial: (-2.5 - (...)**(1/2)) + 1
Estimator_NegativeRoot(nl) ==
    (0 - 2500 - Isqrt(6250000 + 4900000 + 1420 * nl, Pow2(15))) + 1000

\* line 83: the dispense height for nl nanolitres in the well, in whole
\* micrometres: (-2.5 + (2.5**2 + 4.9 + 1.42*volume_added)**(1/2)) + 1.
\* The last bits of the float the script computes depend on the platform's
\* pow; the height is resolved to the micrometre.
Estimator(nl) ==
    (0 - 2500 + Isqrt(6250000 + 4900000 + 1420 * nl, Pow2(15))) + 1000

\* lines 79-84: the dispense heights of the first n steps of a call
DispenseHeights(step_volume, n) ==
    [x \in 1..n |-> Estimator(Nanolitres(TimesFloat(x, step_volume)))]

-----------------------------------------------------------------------------
(* custom_mix, lines 35-60.  failAt = 0: no aspirate or dispense of the    *)
(* call faults; failAt = f > 0: the f-th of them raises.                   *)

\* lines 59-60 left out: the clearances are not set back
CustomMix_NoRestore(pipette, repetitions, volume, well, bottom_aspirate, bottom_dispense, failAt) ==
    IF pipette.kind # "pipette"
    THEN [err |-> "script", clearance |-> clearance, cycles |-> 0]
    ELSE [err |-> IF failAt = 0 THEN "none" ELSE "driver",
          clearance |-> [aspirate |-> bottom_aspirate,
                         dispense |-> bottom_dispense],
          cycles |-> IF failAt = 0 THEN repetitions ELSE (failAt - 1) \div 2]

CustomMix(pipette, repetitions, volume, well, bottom_aspirate, bottom_dispense, failAt) ==
    IF pipette.kind # "pipette"
    THEN \* line 54: the object has no well_bottom_clearance
         [err |-> "script", clearance |-> clearance, cycles |-> 0]
    ELSE IF failAt = 0
    THEN \* lines 54-60
         [err |-> "none",
          clearance |-> [aspirate |-> DefaultClearance,
                         dispense |-> DefaultClearance],
          cycles |-> repetitions]
    ELSE \* lines 54-58: the exception leaves the loop and the function
         [err |-> "driver",
          clearance |-> [aspirate |-> bottom_aspirate,
                         dispense |-> bottom_dispense],
          cycles |-> (failAt - 1) \div 2]

-----------------------------------------------------------------------------
(* stepwise_dispense, lines 62-84.  failAt as for custom_mix.              *)

\* range(steps - 1) instead of range(steps)
StepwiseDispense_StopsEarly(volume, steps, failAt) ==
    [volume |-> volume,
     steps |-> steps,
     step_volume |-> FloatDiv(volume, steps),
     dispensed |-> IF failAt = 0 THEN steps - 1 ELSE failAt - 1,
     err |-> IF failAt = 0 THEN "none" ELSE "driver"]

StepwiseDispense(volume, steps, failAt) ==
    [volume |-> volume,
     steps |-> steps,
     step_volume |-> FloatDiv(volume, steps),
     dispensed |-> IF failAt = 0 THEN steps ELSE failAt - 1,
     err |-> IF failAt = 0 THEN "none" ELSE "driver"]

NoFloat == [m |-> << >>, e |-> 0]

NoDispense ==
    [volume |-> 0, steps |-> 0, step_volume |-> NoFloat, dispensed |-> 0,
     err |-> "none"]

-----------------------------------------------------------------------------
(* The state before run is entered *)

InitWith(counts, calls) ==
    /\ no_samples \in counts
    /\ cleanings \in 1..MaxCleanings
    /\ columns = 0 /\ i = 0 /\ j = 0 /\ k = 0
    /\ seqPc = "start" /\ sub = 0
    /\ fault = "none" /\ faultAt = "-"
    /\ done = FALSE /\ paused = FALSE
    /\ monPc = "idle" /\ depth = 0 /\ chk = NoCheck
    /\ door_closed = TRUE
    /\ driverPaused = FALSE
    /\ outstanding = 0
    /\ mainAlive = TRUE
    /\ magnet \in {"engaged", "disengaged"}
    /\ tip = [p300 |-> NoTip, p10 |-> NoTip]
    /\ racks = [r \in RackNames |-> [c \in 1..PlateColumns |-> "fresh"]]
    /\ flow_rate = [p300 |-> [aspirate |-> 0, dispense |-> 0],
                    p10 |-> [aspirate |-> 0, dispense |-> 0]]
    /\ clearance = [aspirate |-> DefaultClearance, dispense |-> DefaultClearance]
    /\ lastOp = NoOp
    /\ issued = 0
    /\ visited = [l \in Loops |-> << >>]
    /\ sd \in calls

\* runs of one, two and three columns (20 samples is the script's default)
Init == InitWith(RunSamples, {NoDispense})

\* runs of every column count
WideInit == InitWith(SampleCounts, {NoDispense})

-----------------------------------------------------------------------------
(* Helpers of the Sequencer's actions *)

\* for ... in range(1, columns+1), lines 156, 181, 199, 211, 235, 256:
\* whether an iteration follows the one of column c
\* range(1, columns) instead of range(1, columns+1)
MoreColumns_StopsEarly(c) == c < columns - 1

MoreColumns(c) == c < columns

\* A call of the robot driver that returns: it waits while the driver is
\* paused, and is recorded
Issue(rec) ==
    /\ ~driverPaused
    /\ lastOp' = rec
    /\ issued' = issued + 1

NoFault == UNCHANGED << fault, faultAt >>

Goto(pc) == seqPc' = pc /\ NoFault

\* the exception leaves run
Raise(err) ==
    /\ seqPc' = "aborted"
    /\ fault' = err
    /\ faultAt' = seqPc

SetFlow(pip, a, d) ==
    flow_rate' = [flow_rate EXCEPT ![pip] = [aspirate |-> a, dispense |-> d]]

Visit(loop, c) == visited' = [visited EXCEPT ![loop] = Append(@, c)]

\* A position of a rack holds a tip no pipette has taken ("fresh"), a tip
\* that return_tip has put back ("returned"), or nothing ("empty").  The
\* driver hands out fresh tips only: at apiLevel 2.10 a returned tip is not
\* given to a pick_up_tip that names no position.
FreshColumns(rack) == {c \in 1..PlateColumns : racks[rack][c] = "fresh"}

\* the first fresh column of the first rack of order[n..] that has one
RECURSIVE NextTipFrom(_, _)
NextTipFrom(order, n) ==
    IF n > Len(order) THEN NoTip
    ELSE IF FreshColumns(order[n]) = {} THEN NextTipFrom(order, n + 1)
    ELSE [from |-> order[n],
          col |-> CHOOSE c \in FreshColumns(order[n]) :
                    \A d \in FreshColumns(order[n]) : c <= d]

\* pipette.pick_up_tip(): the tip it takes
NextTip(pip) == NextTipFrom(TipRacks(pip), 1)

\* the pipette has taken the tip of position t
TakeTip(pip, t) ==
    /\ tip' = [tip EXCEPT ![pip] = t]
    /\ racks' = [racks EXCEPT ![t.from][t.col] = "empty"]

\* pipette.pick_up_tip() at statement rec, run going on at next; with no
\* fresh tip left the driver raises OutOfTipsError
AutoPick(pip, rec, next) ==
    IF NextTip(pip) = NoTip
    THEN /\ ~driverPaused
         /\ Raise("out_of_tips")
         /\ UNCHANGED << lastOp, issued, tip, racks >>
    ELSE /\ Issue(rec)
         /\ TakeTip(pip, NextTip(pip))
         /\ Goto(next)

\* pipette.return_tip(): the tip goes back to where it was taken from
PutBack(pip) ==
    /\ tip' = [tip EXCEPT ![pip] = NoTip]
    /\ racks' = IF tip[pip] = NoTip THEN racks
                ELSE [racks EXCEPT ![tip[pip].from][tip[pip].col] = "returned"]

\* a call of custom_mix from run, and where run continues after it
MixCall(next, phase, pipette, repetitions, volume, well, ba, bd) ==
    \E failAt \in 0..(2 * repetitions) :
        LET r == CustomMix(pipette, repetitions, volume, well, ba, bd, failAt)
        IN  /\ (r.err # "script") => ~driverPaused
            /\ clearance' = r.clearance
            /\ IF r.err = "none"
               THEN /\ Goto(next)
                    /\ issued' = issued + 1
                    /\ lastOp' = [Op(phase, "custom_mix", pipette.name, well.lw,
                                     well.col, volume, 0)
                                  EXCEPT !.n = r.cycles]
               ELSE /\ Raise(r.err)
                    /\ UNCHANGED << lastOp, issued >>

-----------------------------------------------------------------------------
(* Setup, lines 93-145 *)

\* lines 93-124
RunStart ==
    /\ seqPc = "start"
    /\ Issue(Op("Setup", "set_rail_lights", "-", "-", 0, 0, 0))
    /\ paused' = FALSE
    /\ done' = FALSE
    /\ monPc' = "if1" /\ depth' = 1 /\ chk' = NoCheck
    /\ Goto("load")
    /\ UNCHANGED << params, loopVars, sub, driverPaused, outstanding, envVars,
                    robot, visited, sd >>

\* lines 127-145
LoadLabware ==
    /\ seqPc = "load"
    /\ Issue(Op("Setup", "disengage", "-", "mag_deck", 0, 0, 0))
    /\ magnet' = "disengaged"
    /\ Goto("columns")
    /\ UNCHANGED << params, loopVars, sub, done, monVars, envVars, tip,
                    racks,                    flow_rate, clearance, visited, sd >>

\* lines 153-156
ComputeColumns ==
    /\ seqPc = "columns"
    /\ columns' = ColumnCount(no_samples)
    /\ i' = 1
    /\ Goto("bead_pick")
    /\ UNCHANGED << params, j, k, sub, done, monVars, envVars, robot, lastOp,
                    issued, visited, sd >>

-----------------------------------------------------------------------------
(* 1. Bead binding, lines 156-172 *)

PreMixColumns == {1, 6}

\* line 157
BeadPick ==
    /\ seqPc = "bead_pick"
    /\ AutoPick("p300", Op("BeadBinding", "pick_up_tip", "p300", "-", i, 0, 0),
                "bead_premix")
    /\ Visit("bead", i)
    /\ UNCHANGED << params, loopVars, sub, done, monVars, envVars, magnet,
                    flow_rate, clearance, sd >>

\* lines 158-161: the first argument of custom_mix is the well, the fourth
\* the pipette
BeadPreMix ==
    /\ seqPc = "bead_premix"
    /\ IF columns \in PreMixColumns
       THEN /\ SetFlow("p300", 9, 9)
            /\ MixCall("bead_aspirate", "BeadBinding", Well("resevoir", 1),
                       30, 15, P300, 30, 60)
       ELSE /\ Goto("bead_aspirate")
            /\ UNCHANGED << flow_rate, clearance, lastOp, issued >>
    /\ UNCHANGED << params, loopVars, sub, done, monVars, envVars, magnet,
                    tip, racks, visited, sd >>

\* lines 163-165
BeadAspirate ==
    /\ seqPc = "bead_aspirate"
    /\ SetFlow("p300", 120, 30)
    /\ Issue(Op("BeadBinding", "aspirate", "p300", "resevoir", 1,
                volBeads + 10, 30))
    /\ Goto("bead_dispense")
    /\ UNCHANGED << params, loopVars, sub, done, monVars, envVars, magnet,
                    tip, racks, clearance, visited, sd >>

\* line 166
BeadDispense ==
    /\ seqPc = "bead_dispense"
    /\ Issue(Op("BeadBinding", "dispense", "p300", "sample_plate", i,
                volBeads, 50))
    /\ Goto("bead_excess")
    /\ UNCHANGED << params, loopVars, sub, done, monVars, envVars, robot,
                    visited, sd >>

\* line 167
BeadReturnExcess ==
    /\ seqPc = "bead_excess"
    /\ Issue(Op("BeadBinding", "dispense", "p300", "resevoir", 1, 10, 200))
    /\ Goto("bead_blow_out")
    /\ UNCHANGED << params, loopVars, sub, done, monVars, envVars, robot,
                    visited, sd >>

\* line 168
BeadBlowOut ==
    /\ seqPc = "bead_blow_out"
    /\ Issue(Op("BeadBinding", "blow_out", "p300", "resevoir", 1, 0, 200))
    /\ Goto("bead_mix")
    /\ UNCHANGED << params, loopVars, sub, done, monVars, envVars, robot,
                    visited, sd >>

\* lines 169-171
BeadMix ==
    /\ seqPc = "bead_mix"
    /\ SetFlow("p300", 60, 60)
    /\ MixCall("bead_drop", "BeadBinding", P300, 15,
               vol_samples + volBeads - 10, Well("sample_plate", i), 6, 30)
    /\ UNCHANGED << params, loopVars, sub, done, monVars, envVars, magnet,
                    tip, racks, visited, sd >>

\* line 172, and the loop header of line 156
BeadDrop ==
    /\ seqPc = "bead_drop"
    /\ Issue(Op("BeadBinding", "drop_tip", "p300", "-", i, 0, 0))
    /\ tip' = [tip EXCEPT !.p300 = NoTip]
    /\ IF MoreColumns(i)
       THEN i' = i + 1 /\ Goto("bead_pick")
       ELSE i' = i /\ Goto("capture_delay1")
    /\ UNCHANGED << params, columns, j, k, sub, done, monVars, envVars, magnet,
                    racks,                    flow_rate, clearance, visited, sd >>

-----------------------------------------------------------------------------
(* 2. Magnetic capture, lines 175-177 *)

\* line 175
CaptureDelay1 ==
    /\ seqPc = "capture_delay1"
    /\ Issue([Op("MagneticCapture", "delay", "-", "-", 0, 0, 0) EXCEPT !.n = 300])
    /\ Goto("capture_engage")
    /\ UNCHANGED << params, loopVars, sub, done, monVars, envVars, robot,
                    visited, sd >>

\* mag_deck.disengage() instead of mag_deck.engage()
CaptureEngage_Disengages ==
    /\ seqPc = "capture_engage"
    /\ Issue(Op("MagneticCapture", "engage", "-", "mag_deck", 0, 0, 0))
    /\ magnet' = "disengaged"
    /\ Goto("capture_delay2")
    /\ UNCHANGED << params, loopVars, sub, done, monVars, envVars, tip,
                    racks,                    flow_rate, clearance, visited, sd >>

\* line 176
CaptureEngage ==
    /\ seqPc = "capture_engage"
    /\ Issue(Op("MagneticCapture", "engage", "-", "mag_deck", 0, 0, 0))
    /\ magnet' = "engaged"
    /\ Goto("capture_delay2")
    /\ UNCHANGED << params, loopVars, sub, done, monVars, envVars, tip,
                    racks,                    flow_rate, clearance, visited, sd >>

\* line 177, and the loop header of line 181
CaptureDelay2 ==
    /\ seqPc = "capture_delay2"
    /\ Issue([Op("MagneticCapture", "delay", "-", "-", 0, 0, 0) EXCEPT !.n = 300])
    /\ i' = 1
    /\ Goto("sup_pick")
    /\ UNCHANGED << params, columns, j, k, sub, done, monVars, envVars, robot,
                    visited, sd >>

-----------------------------------------------------------------------------
(* 3. Supernatant removal, lines 180-192 *)

\* lines 185-191: the volume and the height of each aspirate
SupernatantSteps ==
    << [vol |-> (v_tot \div 2) - 5, z |-> 50],
       [vol |-> (v_tot \div 2) - 5, z |-> 20],
       [vol |-> 5, z |-> 5],
       [vol |-> 5, z |-> 2],
       [vol |-> 5, z |-> 1],
       [vol |-> 5, z |-> 0] >>

\* lines 182-183
SupPick ==
    /\ seqPc = "sup_pick"
    /\ AutoPick("p300",
                Op("SupernatantRemoval", "pick_up_tip", "p300", "-", i, 0, 0),
                "sup_aspirate")
    /\ flow_rate' = IF NextTip("p300") = NoTip THEN flow_rate
                    ELSE [flow_rate EXCEPT !.p300.aspirate = 90]
    /\ Visit("supernatant", i)
    /\ sub' = 1
    /\ UNCHANGED << params, loopVars, done, monVars, envVars, magnet,
                    clearance, sd >>

\* lines 185-191, one aspirate at a time
SupAspirate ==
    /\ seqPc = "sup_aspirate"
    /\ Issue(Op("SupernatantRemoval", "aspirate", "p300", "sample_plate", i,
                SupernatantSteps[sub].vol, SupernatantSteps[sub].z))
    /\ IF sub < Len(SupernatantSteps)
       THEN sub' = sub + 1 /\ Goto("sup_aspirate")
       ELSE sub' = 0 /\ Goto("sup_drop")
    /\ UNCHANGED << params, loopVars, done, monVars, envVars, robot,
                    visited, sd >>

\* line 192, and the loop headers of lines 181 and 195
SupDrop ==
    /\ seqPc = "sup_drop"
    /\ Issue(Op("SupernatantRemoval", "drop_tip", "p300", "-", i, 0, 0))
    /\ tip' = [tip EXCEPT !.p300 = NoTip]
    /\ IF MoreColumns(i)
       THEN i' = i + 1 /\ Goto("sup_pick")
       ELSE i' = i /\ Goto("wash_begin")
    /\ UNCHANGED << params, columns, j, k, sub, done, monVars, envVars, magnet,
                    racks,                    flow_rate, clearance, visited, sd >>

-----------------------------------------------------------------------------
(* 4. Wash cycles, lines 195-228 *)

\* lines 195-199: the next cycle begins
WashBegin ==
    /\ seqPc = "wash_begin"
    /\ j' = j + 1
    /\ SetFlow("p300", 60, 30)
    /\ i' = 1
    /\ visited' = [visited EXCEPT !["washAdd"] = << >>, !["washRemove"] = << >>]
    /\ Goto("wash_pick")
    /\ UNCHANGED << params, columns, k, sub, done, monVars, envVars, magnet,
                    tip, racks, clearance, lastOp, issued, sd >>

\* line 200
WashPick ==
    /\ seqPc = "wash_pick"
    /\ Issue(Op("WashCycles", "pick_up_tip", "p300", "tiprack_7", i, 0, 0))
    /\ TakeTip("p300", [from |-> "tiprack_7", col |-> i])
    /\ Visit("washAdd", i)
    /\ Goto("wash_aspirate")
    /\ UNCHANGED << params, loopVars, sub, done, monVars, envVars, magnet,
                    flow_rate, clearance, sd >>

\* line 201
WashAspirate ==
    /\ seqPc = "wash_aspirate"
    /\ Issue(Op("WashCycles", "aspirate", "p300", "resevoir_EtOH", i, 190, 30))
    /\ Goto("wash_dispense")
    /\ UNCHANGED << params, loopVars, sub, done, monVars, envVars, robot,
                    visited, sd >>

\* line 202; the heights of the ten dispenses depend on the arguments alone
\* and are those DispenseCall records for 190 and 10
WashDispense ==
    /\ seqPc = "wash_dispense"
    /\ ~driverPaused
    /\ \E failAt \in 0..10 :
        LET r == StepwiseDispense(190, 10, failAt)
        IN  /\ sd' = r
            /\ IF r.err = "none"
               THEN /\ Goto("wash_return")
                    /\ issued' = issued + 1
                    /\ lastOp' = [Op("WashCycles", "stepwise_dispense", "p300",
                                     "sample_plate", i, 190, 0)
                                  EXCEPT !.n = r.dispensed]
               ELSE /\ Raise(r.err)
                    /\ UNCHANGED << lastOp, issued >>
    /\ UNCHANGED << params, loopVars, sub, done, monVars, envVars, robot,
                    visited >>

\* line 203, and the loop header of line 199
WashReturn ==
    /\ seqPc = "wash_return"
    /\ Issue(Op("WashCycles", "return_tip", "p300", "tiprack_7", i, 0, 0))
    /\ PutBack("p300")
    /\ IF MoreColumns(i)
       THEN i' = i + 1 /\ Goto("wash_pick")
       ELSE i' = i /\ Goto("wash_delay")
    /\ UNCHANGED << params, columns, j, k, sub, done, monVars, envVars, magnet,
                    flow_rate, clearance, visited, sd >>

\* "if columns <= 4:"
SettlingDelay_UpToFour == columns <= 4

\* line 205: whether the wash is left to settle before it is removed
SettlingDelay == columns < 4

\* lines 205-211
WashDelay ==
    /\ seqPc = "wash_delay"
    /\ IF SettlingDelay
       THEN Issue([Op("WashCycles", "delay", "-", "-", 0, 0, 0) EXCEPT !.n = 30])
       ELSE UNCHANGED << lastOp, issued >>
    /\ SetFlow("p300", 90, 100)
    /\ k' = 1
    /\ Goto("rem_pick")
    /\ UNCHANGED << params, columns, i, j, sub, done, monVars, envVars, magnet,
                    tip, racks, clearance, visited, sd >>

\* lines 213-221: the volume, the height and the diagonal offset of each
\* aspirate (center_location is 0.3 mm above the bottom)
RemoveSteps ==
    << [vol |-> 150, z |-> 3 + 12, xy |-> 0],
       [vol |-> 30, z |-> 3, xy |-> 0],
       [vol |-> 20, z |-> 3 + 1, xy |-> 3],
       [vol |-> 20, z |-> 3 + 1, xy |-> -3] >>

\* lines 212-216
RemovePick ==
    /\ seqPc = "rem_pick"
    /\ Issue(Op("WashCycles", "pick_up_tip", "p300", "tiprack_7", k, 0, 0))
    /\ TakeTip("p300", [from |-> "tiprack_7", col |-> k])
    /\ Visit("washRemove", k)
    /\ sub' = 1
    /\ Goto("rem_aspirate")
    /\ UNCHANGED << params, loopVars, done, monVars, envVars, magnet,
                    flow_rate, clearance, sd >>

\* lines 218-221, one aspirate at a time
RemoveAspirate ==
    /\ seqPc = "rem_aspirate"
    /\ Issue([Op("WashCycles", "aspirate", "p300", "sample_plate", k,
                 RemoveSteps[sub].vol, RemoveSteps[sub].z)
              EXCEPT !.xy = RemoveSteps[sub].xy])
    /\ IF sub < Len(RemoveSteps)
       THEN sub' = sub + 1 /\ Goto("rem_aspirate")
       ELSE sub' = 0 /\ Goto("rem_dispense")
    /\ UNCHANGED << params, loopVars, done, monVars, envVars, robot,
                    visited, sd >>

\* line 223: the trash well is indexed by i, the variable of the loop of
\* line 199
RemoveDispense ==
    /\ seqPc = "rem_dispense"
    /\ Issue(Op("WashCycles", "dispense", "p300", "resevoir_trash", i, 220, 30))
    /\ Goto("rem_tip")
    /\ UNCHANGED << params, loopVars, sub, done, monVars, envVars, robot,
                    visited, sd >>

\* lines 225-228: what is done with the tip after the removal in cycle c of n
\* the tip is dropped after every cycle
WashTipOp_AlwaysDrops(c, n) == "drop_tip"

\* the "elif j == cleanings" branch left out: the tip of the last cycle stays
\* on the pipette
WashTipOp_KeepsLast(c, n) == IF c < n THEN "return_tip" ELSE "none"

WashTipOp(c, n) ==
    IF c < n THEN "return_tip"
    ELSE IF c = n THEN "drop_tip"
    ELSE "none"

\* lines 225-228, and the loop headers of lines 211 and 195
RemoveTip ==
    /\ seqPc = "rem_tip"
    /\ IF WashTipOp(j, cleanings) = "none"
       THEN UNCHANGED << lastOp, issued, tip, racks >>
       ELSE /\ Issue(Op("WashCycles", WashTipOp(j, cleanings), "p300",
                        IF WashTipOp(j, cleanings) = "return_tip"
                        THEN "tiprack_7" ELSE "-", k, 0, 0))
            /\ IF WashTipOp(j, cleanings) = "return_tip"
               THEN PutBack("p300")
               ELSE tip' = [tip EXCEPT !.p300 = NoTip] /\ racks' = racks
    /\ IF MoreColumns(k)
       THEN k' = k + 1 /\ Goto("rem_pick")
       ELSE /\ k' = k
            /\ IF j < cleanings THEN Goto("wash_begin") ELSE Goto("elu_delay")
    /\ UNCHANGED << params, columns, i, j, sub, done, monVars, envVars, magnet,
                    flow_rate, clearance, visited, sd >>

-----------------------------------------------------------------------------
(* 5. Elution, lines 231-247 *)

\* line 231
EluDelay ==
    /\ seqPc = "elu_delay"
    /\ Issue([Op("Elution", "delay", "-", "-", 0, 0, 0) EXCEPT !.n = 300])
    /\ Goto("elu_disengage")
    /\ UNCHANGED << params, loopVars, sub, done, monVars, envVars, robot,
                    visited, sd >>

\* line 232, and the loop header of line 235
EluDisengage ==
    /\ seqPc = "elu_disengage"
    /\ Issue(Op("Elution", "disengage", "-", "mag_deck", 0, 0, 0))
    /\ magnet' = "disengaged"
    /\ i' = 1
    /\ Goto("elu_pick")
    /\ UNCHANGED << params, columns, j, k, sub, done, monVars, envVars, tip,
                    racks,                    flow_rate, clearance, visited, sd >>

\* lines 236-238
EluPick ==
    /\ seqPc = "elu_pick"
    /\ SetFlow("p300", 120, 120)
    /\ AutoPick("p300", Op("Elution", "pick_up_tip", "p300", "-", i, 0, 0),
                "elu_transfer")
    /\ Visit("elution", i)
    /\ UNCHANGED << params, loopVars, sub, done, monVars, envVars, magnet,
                    clearance, sd >>

\* lines 239-245
EluTransfer ==
    /\ seqPc = "elu_transfer"
    /\ Issue(Op("Elution", "transfer", "p300", "sample_plate", i, vol_EB, 30))
    /\ Goto("elu_mix")
    /\ UNCHANGED << params, loopVars, sub, done, monVars, envVars, robot,
                    visited, sd >>

\* line 246
EluMix ==
    /\ seqPc = "elu_mix"
    /\ MixCall("elu_drop", "Elution", P300, 30, vol_EB - 3,
               Well("sample_plate", i), 4, 15)
    /\ UNCHANGED << params, loopVars, sub, done, monVars, envVars, magnet,
                    tip, racks, flow_rate, visited, sd >>

\* line 247, and the loop header of line 235
EluDrop ==
    /\ seqPc = "elu_drop"
    /\ Issue(Op("Elution", "drop_tip", "p300", "-", i, 0, 0))
    /\ tip' = [tip EXCEPT !.p300 = NoTip]
    /\ IF MoreColumns(i)
       THEN i' = i + 1 /\ Goto("elu_pick")
       ELSE i' = i /\ Goto("rel_engage")
    /\ UNCHANGED << params, columns, j, k, sub, done, monVars, envVars, magnet,
                    racks,                    flow_rate, clearance, visited, sd >>

-----------------------------------------------------------------------------
(* 6. Release and transfer, lines 250-264 *)

\* line 250
RelEngage ==
    /\ seqPc = "rel_engage"
    /\ Issue(Op("ReleaseTransfer", "engage", "-", "mag_deck", 0, 0, 0))
    /\ magnet' = "engaged"
    /\ Goto("rel_delay")
    /\ UNCHANGED << params, loopVars, sub, done, monVars, envVars, tip,
                    racks,                    flow_rate, clearance, visited, sd >>

\* lines 251-256
RelDelay ==
    /\ seqPc = "rel_delay"
    /\ Issue([Op("ReleaseTransfer", "delay", "-", "-", 0, 0, 0) EXCEPT !.n = 60])
    /\ SetFlow("p10", 3, 10)
    /\ i' = 1
    /\ Goto("xfer_pick")
    /\ UNCHANGED << params, columns, j, k, sub, done, monVars, envVars, magnet,
                    tip, racks, clearance, visited, sd >>

\* line 257
XferPick ==
    /\ seqPc = "xfer_pick"
    /\ AutoPick("p10",
                Op("ReleaseTransfer", "pick_up_tip", "p10", "-", i, 0, 0),
                "xfer_transfer")
    /\ Visit("transfer", i)
    /\ UNCHANGED << params, loopVars, sub, done, monVars, envVars, magnet,
                    flow_rate, clearance, sd >>

\* lines 258-262
XferTransfer ==
    /\ seqPc = "xfer_transfer"
    /\ Issue(Op("ReleaseTransfer", "transfer", "p10", "clean_plate", i,
                vol_EB - 3, 10))
    /\ Goto("xfer_blow_out")
    /\ UNCHANGED << params, loopVars, sub, done, monVars, envVars, robot,
                    visited, sd >>

\* line 263
XferBlowOut ==
    /\ seqPc = "xfer_blow_out"
    /\ Issue(Op("ReleaseTransfer", "blow_out", "p10", "-", i, 0, 0))
    /\ Goto("xfer_drop")
    /\ UNCHANGED << params, loopVars, sub, done, monVars, envVars, robot,
                    visited, sd >>

\* line 264, and the loop header of line 256
XferDrop ==
    /\ seqPc = "xfer_drop"
    /\ Issue(Op("ReleaseTransfer", "drop_tip", "p10", "-", i, 0, 0))
    /\ tip' = [tip EXCEPT !.p10 = NoTip]
    /\ IF MoreColumns(i)
       THEN i' = i + 1 /\ Goto("xfer_pick")
       ELSE i' = i /\ Goto("fin_home")
    /\ UNCHANGED << params, columns, j, k, sub, done, monVars, envVars, magnet,
                    racks,                    flow_rate, clearance, visited, sd >>

-----------------------------------------------------------------------------
(* 7. Finalization, lines 267-273 *)

\* line 267
FinHome ==
    /\ seqPc = "fin_home"
    /\ Issue(Op("Finalization", "home", "p300", "-", 0, 0, 0))
    /\ Goto("fin_disengage")
    /\ UNCHANGED << params, loopVars, sub, done, monVars, envVars, robot,
                    visited, sd >>

\* line 268
FinDisengage ==
    /\ seqPc = "fin_disengage"
    /\ Issue(Op("Finalization", "disengage", "-", "mag_deck", 0, 0, 0))
    /\ magnet' = "disengaged"
    /\ Goto("fin_done")
    /\ UNCHANGED << params, loopVars, sub, done, monVars, envVars, tip,
                    racks,                    flow_rate, clearance, visited, sd >>

\* "paused = False" next to line 270: the Sequencer writes the Monitor's flag
FinDone_ClearsPaused ==
    /\ seqPc = "fin_done"
    /\ done' = TRUE
    /\ paused' = FALSE
    /\ Goto("fin_join")
    /\ UNCHANGED << params, loopVars, sub, monPc, depth, chk, driverPaused,
                    outstanding, envVars, robot, lastOp, issued, visited, sd >>

\* line 270
FinDone ==
    /\ seqPc = "fin_done"
    /\ done' = TRUE
    /\ Goto("fin_join")
    /\ UNCHANGED << params, loopVars, sub, monVars, envVars, robot, lastOp,
                    issued, visited, sd >>

MonitorEnded == monPc \in {"returned", "crashed"}

\* lines 271-273: join returns when the Monitor thread has ended
FinJoin ==
    /\ seqPc = "fin_join"
    /\ MonitorEnded
    /\ Goto("finished")
    /\ UNCHANGED << params, loopVars, sub, done, monVars, envVars, robot,
                    lastOp, issued, visited, sd >>

-----------------------------------------------------------------------------
(* A fault of the robot driver: the call raises and the exception leaves   *)
(* run, which has no handler.  custom_mix and stepwise_dispense raise from *)
(* inside (MixCall, WashDispense).                                        *)

DriverStatements ==
    { "start", "load",
      "bead_pick", "bead_aspirate", "bead_dispense", "bead_excess",
      "bead_blow_out", "bead_drop",
      "capture_delay1", "capture_engage", "capture_delay2",
      "sup_pick", "sup_aspirate", "sup_drop",
      "wash_pick", "wash_aspirate", "wash_return",
      "rem_pick", "rem_aspirate", "rem_dispense", "rem_tip",
      "elu_delay", "elu_disengage", "elu_pick", "elu_transfer", "elu_drop",
      "rel_engage", "rel_delay",
      "xfer_pick", "xfer_transfer", "xfer_blow_out", "xfer_drop",
      "fin_home", "fin_disengage" }

\* the exception is caught and the statement is tried again
OnDriverFault_Retries ==
    /\ seqPc' = seqPc
    /\ fault' = "driver"
    /\ faultAt' = seqPc

\* what run does when a driver call raises: nothing catches it
OnDriverFault == Raise("driver")

DriverFault ==
    /\ \/ seqPc \in DriverStatements
       \/ seqPc = "wash_delay" /\ SettlingDelay
    /\ ~driverPaused
    /\ OnDriverFault
    /\ UNCHANGED << params, loopVars, sub, done, monVars, envVars, robot,
                    lastOp, issued, visited, sd >>

\* the exception, or the return of run, ends the main thread
MainThreadExit ==
    /\ seqPc \in {"aborted", "finished"}
    /\ mainAlive
    /\ mainAlive' = FALSE
    /\ UNCHANGED << params, loopVars, seqPc, sub, fault, faultAt, done,
                    monVars, door_closed, robot, lastOp, issued, visited, sd >>

-----------------------------------------------------------------------------
(* The Pause Monitor: check_pause, lines 101-121 *)

DoorReading == IF door_closed THEN "closed" ELSE "open"

\* the check has read protocol.door_closed once more
ReadDoor(c) == [c EXCEPT !.reads = Append(@, DoorReading)]

Called(c, what) == [c EXCEPT !.calls = Append(@, what)]

seqVars == << seqPc, sub, fault, faultAt, done, lastOp, issued, visited, sd >>

\* "if not protocol.door_closed:", whatever paused
ShouldPause_IgnoresPaused == ~door_closed

\* line 104
ShouldPause == ~paused /\ ~door_closed

\* "if paused:", whatever the door
ShouldResume_IgnoresDoor == paused

\* line 108
ShouldResume == paused /\ door_closed

\* lines 104-106; "not paused and ..." reads the door only when not paused
MonitorPause ==
    /\ monPc = "if1"
    /\ IF ShouldPause
       THEN /\ driverPaused' = TRUE
            /\ outstanding' = outstanding + 1
            /\ paused' = TRUE
            /\ chk' = Called(ReadDoor(chk), "pause")
       ELSE /\ UNCHANGED << driverPaused, outstanding, paused >>
            /\ chk' = IF paused THEN chk ELSE ReadDoor(chk)
    /\ monPc' = "if2"
    /\ UNCHANGED << params, loopVars, seqVars, depth, envVars, robot >>

\* lines 108-110; "paused and ..." reads the door only when paused
MonitorResume ==
    /\ monPc = "if2"
    /\ IF ShouldResume
       THEN /\ driverPaused' = FALSE
            /\ outstanding' = outstanding - 1
            /\ paused' = FALSE
            /\ chk' = Called(ReadDoor(chk), "resume")
       ELSE /\ UNCHANGED << driverPaused, outstanding, paused >>
            /\ chk' = IF paused THEN ReadDoor(chk) ELSE chk
    /\ monPc' = "if3"
    /\ UNCHANGED << params, loopVars, seqVars, depth, envVars, robot >>

\* lines 112-113: the notice is printed, nothing else changes
MonitorNotice ==
    /\ monPc = "if3"
    /\ chk' = IF paused THEN ReadDoor(chk) ELSE chk
    /\ monPc' = "sleep"
    /\ UNCHANGED << params, loopVars, seqVars, paused, driverPaused,
                    outstanding, depth, envVars, robot >>

\* "if not run_canceled:", whatever done
Recheck_IgnoresDone == mainAlive

\* line 120: whether check_pause calls itself again
Recheck == ~done /\ mainAlive

\* lines 115-121: the nested call, or the return of every frame; the call
\* that would exceed the interpreter's stack raises RecursionError, which
\* ends the thread
MonitorRecheck ==
    /\ monPc = "sleep"
    /\ IF Recheck
       THEN IF depth < MaxDepth
            THEN /\ monPc' = "if1"
                 /\ depth' = depth + 1
                 /\ chk' = NewCheck(paused)
            ELSE /\ monPc' = "crashed"
                 /\ depth' = 0
                 /\ chk' = NoCheck
       ELSE /\ monPc' = "returned"
            /\ depth' = 0
            /\ chk' = NoCheck
    /\ UNCHANGED << params, loopVars, seqVars, paused, driverPaused,
                    outstanding, envVars, robot >>

-----------------------------------------------------------------------------
(* The enclosure door is opened or closed *)

DoorEvent ==
    /\ door_closed' = ~door_closed
    /\ UNCHANGED << params, loopVars, seqVars, monVars, mainAlive, robot >>

-----------------------------------------------------------------------------

Sequencer ==
    \/ RunStart \/ LoadLabware \/ ComputeColumns
    \/ BeadPick \/ BeadPreMix \/ BeadAspirate \/ BeadDispense
    \/ BeadReturnExcess \/ BeadBlowOut \/ BeadMix \/ BeadDrop
    \/ CaptureDelay1 \/ CaptureEngage \/ CaptureDelay2
    \/ SupPick \/ SupAspirate \/ SupDrop
    \/ WashBegin \/ WashPick \/ WashAspirate \/ WashDispense \/ WashReturn
    \/ WashDelay \/ RemovePick \/ RemoveAspirate \/ RemoveDispense \/ RemoveTip
    \/ EluDelay \/ EluDisengage \/ EluPick \/ EluTransfer \/ EluMix \/ EluDrop
    \/ RelEngage \/ RelDelay \/ XferPick \/ XferTransfer \/ XferBlowOut
    \/ XferDrop
    \/ FinHome \/ FinDisengage \/ FinDone \/ FinJoin
    \/ DriverFault

Monitor == MonitorPause \/ MonitorResume \/ MonitorNotice \/ MonitorRecheck

Next == Sequencer \/ Monitor \/ DoorEvent \/ MainThreadExit

Spec == Init /\ [][Next]_vars

\* the runs in which the enclosure stays closed
WideNext == Sequencer \/ Monitor \/ MainThreadExit

WideSpec == WideInit /\ [][WideNext]_vars

\* the runs of one and of two columns with a single wash cycle
FairInit ==
    /\ InitWith({WellsPerColumn, 2 * WellsPerColumn}, {NoDispense})
    /\ cleanings = 1
    /\ magnet = "disengaged"

\* both threads are scheduled again and again: a statement that can be
\* executed is executed
FairSpec ==
    FairInit /\ [][Next]_vars /\ WF_vars(Sequencer) /\ WF_vars(Monitor)

-----------------------------------------------------------------------------
(* stepwise_dispense on its own: called with a volume and a number of steps *)

Volumes == 1..MaxVolume \cup {190}

Pending(volume, steps) ==
    [volume |-> volume, steps |-> steps, step_volume |-> NoFloat,
     dispensed |-> 0, err |-> "pending"]

DispenseInit ==
    InitWith({DefaultSamples},
             {Pending(v, n) : v \in Volumes, n \in 1..MaxSteps})

\* lines 62-84, with the heights at which the dispenses were made
DispenseCall ==
    /\ sd.err = "pending"
    /\ \E failAt \in 0..sd.steps :
        LET r == StepwiseDispense(sd.volume, sd.steps, failAt)
        IN  sd' = [volume |-> r.volume,
                   steps |-> r.steps,
                   step_volume |-> r.step_volume,
                   dispensed |-> r.dispensed,
                   heights |-> DispenseHeights(r.step_volume, r.dispensed),
                   err |-> r.err]
    /\ UNCHANGED << params, loopVars, seqPc, sub, fault, faultAt, done,
                    monVars, envVars, robot, lastOp, issued, visited >>

DispenseSpec == DispenseInit /\ [][DispenseCall]_vars

-----------------------------------------------------------------------------
(* Properties *)

PhaseIndex(p) == CHOOSE n \in 1..Len(Phases) : Phases[n] = p

\* the columns 1..columns in ascending order
AllColumns == [c \in 1..columns |-> c]

\* the last statement of phase p has been issued and has returned
PhaseComplete(p) ==
    CASE p = "Setup" -> lastOp.op = "disengage"
      [] p = "BeadBinding" ->
            /\ visited["bead"] = AllColumns
            /\ lastOp.op = "drop_tip" /\ lastOp.col = columns
      [] p = "MagneticCapture" ->
            /\ lastOp.op = "delay" /\ magnet = "engaged"
      [] p = "SupernatantRemoval" ->
            /\ visited["supernatant"] = AllColumns
            /\ lastOp.op = "drop_tip" /\ lastOp.col = columns
      [] p = "WashCycles" ->
            /\ j = cleanings
            /\ visited["washAdd"] = AllColumns
            /\ visited["washRemove"] = AllColumns
            /\ lastOp.op = "drop_tip" /\ lastOp.col = columns
      [] p = "Elution" ->
            /\ visited["elution"] = AllColumns
            /\ lastOp.op = "drop_tip" /\ lastOp.col = columns
      [] p = "ReleaseTransfer" ->
            /\ visited["transfer"] = AllColumns
            /\ lastOp.op = "drop_tip" /\ lastOp.pip = "p10"
            /\ lastOp.col = columns
      [] OTHER -> FALSE

\* C1: the robot statements are issued in the order of the phases: the phase
\* of the statement issued never goes back, it advances by one phase at a
\* time, and only when the last statement of the phase before has returned
\* for the last column (and, for the wash, in the last cycle); done is set
\* only after the statements of Finalization.
C1_PhaseOrder ==
    [][ LET a == PhaseIndex(lastOp.phase)
            b == PhaseIndex(lastOp'.phase)
        IN  /\ b = a \/ (b = a + 1 /\ PhaseComplete(lastOp.phase))
            /\ done' => (lastOp'.phase = "Finalization"
                         /\ lastOp'.op = "disengage") ]_vars

\* a run of twelve columns has gone through every phase and has ended
C1_Witness ==
    /\ seqPc = "finished"
    /\ columns = PlateColumns
    /\ cleanings = MaxCleanings
    /\ lastOp.phase = "Finalization"
    /\ \A l \in Loops : visited[l] = AllColumns

\* what the tip of the removal step of a wash cycle has to end as
WashTipPolicy(cycle, cycles) ==
    IF cycle < cycles THEN "return_tip" ELSE "drop_tip"

\* C6: the removal step of wash cycle j ends, for every column, with the tip
\* returned to the rack when j < cleanings and dropped when j = cleanings; no
\* tip is dropped in a wash cycle before the last, by either step.
C6_WashTipPolicy ==
    [][ /\ (seqPc = "rem_tip" /\ seqPc' \notin {"rem_tip", "aborted"}) =>
                /\ issued' = issued + 1
                /\ lastOp'.op = WashTipPolicy(j, cleanings)
                /\ lastOp'.col = k
                /\ tip'.p300 = NoTip
        /\ (issued' # issued /\ lastOp'.phase = "WashCycles"
                /\ lastOp'.op = "drop_tip") =>
                (j = cleanings /\ seqPc = "rem_tip")
        /\ (issued' # issued /\ lastOp'.phase = "WashCycles"
                /\ lastOp'.op = "return_tip" /\ j = cleanings) =>
                seqPc = "wash_return" ]_vars

\* the last cycle of several has dropped the tip of the last of several
\* columns, the tips having been returned in the cycle before
C6_Witness ==
    /\ cleanings = MaxCleanings
    /\ j = cleanings
    /\ columns > 1
    /\ seqPc = "elu_delay"
    /\ lastOp.phase = "WashCycles"
    /\ lastOp.op = "drop_tip"
    /\ lastOp.col = columns

\* a loop over the columns whose iterations have all started
LoopDone(l) ==
    CASE l = "bead" -> PhaseIndex(lastOp.phase) > PhaseIndex("BeadBinding")
      [] l = "supernatant" ->
            PhaseIndex(lastOp.phase) > PhaseIndex("SupernatantRemoval")
      [] l = "washAdd" ->
            \/ seqPc \in {"wash_delay", "rem_pick", "rem_aspirate",
                          "rem_dispense", "rem_tip", "elu_delay"}
            \/ seqPc = "wash_begin" /\ j > 0
      [] l = "washRemove" ->
            \/ seqPc = "elu_delay"
            \/ seqPc = "wash_begin" /\ j > 0
      [] l = "elution" -> PhaseIndex(lastOp.phase) > PhaseIndex("Elution")
      [] l = "transfer" -> PhaseIndex(lastOp.phase) > PhaseIndex("ReleaseTransfer")

RunEnded == seqPc \in {"finished", "aborted"}

\* C2: a run in which no call of the robot driver faults ends in
\* Finalization and nowhere else: when it is over the pipette has been homed,
\* the magnet is disengaged, done is true and the Monitor has been joined.
C2_ReachesFinalization ==
    (RunEnded /\ fault # "driver") =>
        /\ seqPc = "finished"
        /\ done
        /\ magnet = "disengaged"
        /\ lastOp.phase = "Finalization"
        /\ MonitorEnded

\* the door as the check read it first, and as it read it next
FirstReading == chk.reads[1]
SecondReading == IF Len(chk.reads) >= 2 THEN chk.reads[2] ELSE "unread"

\* the cases of a check that did not find the run paused and the door open
OtherChecks ==
    /\ (chk.paused0 /\ FirstReading = "closed") =>
            (chk.calls = << "resume" >> /\ ~paused /\ ~driverPaused)
    /\ (chk.paused0 /\ FirstReading = "open") =>
            (chk.calls = << >> /\ paused /\ driverPaused)
    /\ (~chk.paused0 /\ FirstReading = "closed") =>
            (chk.calls = << >> /\ ~paused /\ ~driverPaused)

\* C3, as claimed: a check that finds the run not paused and the door open
\* calls pause, sets paused and does nothing else; one that finds the run
\* paused and the door closed calls resume and clears paused; the others call
\* neither and leave paused as it is.
C3_OneTransition ==
    monPc = "sleep" =>
        /\ (~chk.paused0 /\ FirstReading = "open") =>
                (chk.calls = << "pause" >> /\ paused /\ driverPaused)
        /\ OtherChecks

\* C3, amended: as claimed, except that the check that has called pause reads
\* the door again in its second condition, and calls resume and clears paused
\* in the same pass when the door reads closed there.
C3_Check ==
    monPc = "sleep" =>
        /\ (~chk.paused0 /\ FirstReading = "open") =>
                IF SecondReading = "closed"
                THEN chk.calls = << "pause", "resume" >>
                        /\ ~paused /\ ~driverPaused
                ELSE chk.calls = << "pause" >> /\ paused /\ driverPaused
        /\ OtherChecks

\* a check has paused the run and resumed it in one pass
C3_Witness ==
    /\ monPc = "sleep"
    /\ ~chk.paused0
    /\ chk.reads = << "open", "closed" >>
    /\ chk.calls = << "pause", "resume" >>

\* C4: once done is true or the main thread has ended, the check that wakes
\* up returns instead of calling itself; and after done is set the Monitor
\* thread ends, join returns and the run is over.
C4_MonitorStops ==
    /\ [][ (monPc = "sleep" /\ (done \/ ~mainAlive) /\ monPc' # "sleep") =>
                monPc' = "returned" ]_vars
    /\ done ~> MonitorEnded
    /\ done ~> (seqPc = "finished")

\* the Monitor has returned after done, with the door open and the run
\* paused, and join has returned
C4_Witness ==
    /\ done
    /\ monPc = "returned"
    /\ seqPc = "finished"
    /\ ~door_closed
    /\ paused

\* the pre-mix of a bead binding iteration, as a statement that has returned
PreMix ==
    [Op("BeadBinding", "custom_mix", "p300", "resevoir", 1, 15, 0)
     EXCEPT !.n = 30]

\* C5: with 1 or 6 columns, an iteration of bead binding that has executed
\* the statement of the pre-mix has made the 30 cycles of 15 ul in resevoir A1
\* with the p300 and goes on to the transfer of the beads to sample well
\* A<i>; with any other column count no pre-mix is made.
C5_PreMix ==
    /\ (columns \in PreMixColumns
            /\ (seqPc = "bead_aspirate" \/ faultAt = "bead_premix")) =>
            (fault = "none" /\ lastOp = PreMix)
    /\ (columns \in PreMixColumns /\ seqPc = "bead_excess") =>
            lastOp = Op("BeadBinding", "dispense", "p300", "sample_plate", i,
                        volBeads, 50)
    /\ (columns \notin PreMixColumns /\ seqPc = "bead_aspirate") =>
            lastOp.op = "pick_up_tip"

MixStatements == {"bead_premix", "bead_mix", "elu_mix"}

DefaultClearances ==
    [aspirate |-> DefaultClearance, dispense |-> DefaultClearance]

Scaled(v, e) ==
    IF e <= 0
    THEN << v * Pow2(0 - e) >> \o [x \in 1..FractionLimbs |-> 0]
    ELSE << v \div Pow2(e), ((v % Pow2(e)) * Base) \div Pow2(e) >>
            \o [x \in 1..(FractionLimbs - 1) |-> 0]

\* the number with the digits a minus the number with the digits b
RECURSIVE Minus(_, _, _)
Minus(a, b, idx) ==
    IF idx = 0 THEN 0 ELSE Minus(a, b, idx - 1) * Base + (a[idx] - b[idx])

\* steps * f - volume, in units of the last place of f
SumError(f, steps, volume) ==
    Minus(TimesInt(f.m, steps, FractionLimbs + 1, 0), Scaled(volume, f.e),
          FractionLimbs + 1)

Abs(x) == IF x < 0 THEN 0 - x ELSE x

RECURSIVE GCD(_, _)
GCD(a, b) == IF b = 0 THEN a ELSE GCD(b, a % b)

RECURSIVE IsPowerOfTwo(_)
IsPowerOfTwo(n) == n = 1 \/ (n > 1 /\ n % 2 = 0 /\ IsPowerOfTwo(n \div 2))

\* C9, as claimed: a call that returns has issued steps dispenses, and the
\* volumes dispensed add up to the volume asked for, whatever the steps.
C9_ExactSum ==
    sd.err = "none" /\ sd.steps >= 1 =>
        /\ sd.dispensed = sd.steps
        /\ SumError(sd.step_volume, sd.steps, sd.volume) = 0

\* C9, amended: a call that returns has issued steps dispenses, each of the
\* float nearest to volume / steps; the volumes dispensed add up to the
\* volume asked for exactly when steps / gcd(volume, steps) is a power of
\* two, as in the call of the script (190 ul in 10 steps of 19 ul).
C9_Dispensed ==
    sd.err = "none" /\ sd.steps >= 1 =>
        /\ sd.dispensed = sd.steps
        /\ 2 * Abs(SumError(sd.step_volume, sd.steps, sd.volume)) <= sd.steps
        /\ SumError(sd.step_volume, sd.steps, sd.volume) = 0
            <=> IsPowerOfTwo(sd.steps \div GCD(sd.volume, sd.steps))
        /\ (sd.volume = 190 /\ sd.steps = 10) =>
            /\ sd.step_volume = FloatDiv(19, 1)
            /\ SumError(sd.step_volume, sd.steps, sd.volume) = 0

\* the call of the script has returned
C9_Witness ==
    /\ sd.err = "none"
    /\ sd.volume = 190
    /\ sd.steps = 10
    /\ sd.dispensed = 10

\* C10: the call of the driver that faults ends the run: the Sequencer is
\* left where it raised, no statement is issued after it, none is issued
\* again, nothing of the robot changes and done stays false.
C10_FaultAborts ==
    [][ /\ (fault = "none" /\ fault' = "driver") =>
                /\ seqPc' = "aborted"
                /\ faultAt' = seqPc
                /\ ~done'
                /\ UNCHANGED << issued, lastOp >>
        /\ fault = "driver" =>
                /\ ~done'
                /\ UNCHANGED << seqPc, fault, faultAt, issued, lastOp, i, j, k,
                                sub, visited, sd, robot >> ]_vars

\* a removal aspirate of the wash has faulted, and the threads have ended
C10_Witness ==
    /\ fault = "driver"
    /\ faultAt = "rem_aspirate"
    /\ seqPc = "aborted"
    /\ ~mainAlive
    /\ monPc = "returned"

\* the check found the door open every time it read it
DoorStayedOpen == \A n \in 1..Len(chk.reads) : chk.reads[n] = "open"

\* C11: the Monitor's calls of pause and resume alternate, pause first: a
\* pause is called only with the door open and no pause outstanding, a
\* resume only with the door closed and a pause outstanding; a check that
\* finds the run paused and the door still open calls neither; and paused is
\* true exactly when one more pause than resume has been called.
C11_Alternation ==
    /\ [](outstanding \in {0, 1})
    /\ [](paused <=> outstanding = 1)
    /\ []((monPc = "sleep" /\ chk.paused0 /\ DoorStayedOpen) =>
            (chk.calls = << >> /\ outstanding = 1))
    /\ [][ /\ outstanding' > outstanding =>
                (outstanding = 0 /\ ~paused /\ ~door_closed)
           /\ outstanding' < outstanding =>
                (outstanding = 1 /\ paused /\ door_closed) ]_vars

\* the second check in a row has found the door open and has not called
\* pause again
C11_Witness ==
    /\ monPc = "sleep"
    /\ depth = 2
    /\ chk.paused0
    /\ chk.reads = << "open", "open" >>
    /\ chk.calls = << >>
    /\ outstanding = 1

\* the Monitor thread has been started (line 124)
MonitorStarted == monPc # "idle"

\* C12: once the Monitor thread is started, no step of the Sequencer changes
\* paused and paused changes in steps of the Monitor only; no step of the
\* Monitor changes done; done changes once, from false to true at line 270
\* after the statements of Finalization, and is never false again.
C12_SingleWriter ==
    [][ /\ (MonitorStarted /\ Sequencer) => paused' = paused
        /\ (MonitorStarted /\ paused' # paused) => Monitor
        /\ Monitor => done' = done
        /\ done' # done =>
                /\ ~done /\ done'
                /\ seqPc = "fin_done"
                /\ lastOp.phase = "Finalization"
        /\ done => done' ]_vars

\* done has been set while the Monitor had the run paused, and paused has
\* been left as it was
C12_Witness ==
    /\ seqPc = "fin_join"
    /\ done
    /\ paused
    /\ MonitorStarted

\* the statements that move liquid
LiquidOps ==
    {"aspirate", "dispense", "blow_out", "custom_mix", "stepwise_dispense",
     "transfer"}

\* the state of the magnet the statements of a phase need
MagnetFor(phase) ==
    IF phase \in {"SupernatantRemoval", "WashCycles", "ReleaseTransfer"}
    THEN "engaged"
    ELSE "disengaged"

C14_TrashWellOfColumn ==
    (lastOp.phase = "WashCycles" /\ lastOp.op = "dispense"
        /\ lastOp.lw = "resevoir_trash") =>
        lastOp.col = k

\* the statements that need a tip on the pipette
TipOps == LiquidOps \cup {"drop_tip", "return_tip"}

\* C15: a pipette holds one tip or none; a pick_up_tip that returns was
\* issued to a pipette without a tip and leaves it with one; every aspirate,
\* dispense, blow-out, mix, transfer, drop_tip and return_tip that returns
\* was issued to a pipette with a tip, and drop_tip and return_tip leave it
\* without; and no pipette holds a tip when done is true.
C15_TipProtocol ==
    /\ [][ issued' > issued =>
            /\ lastOp'.op = "pick_up_tip" =>
                    (tip[lastOp'.pip] = NoTip /\ tip'[lastOp'.pip] # NoTip)
            /\ lastOp'.op \in TipOps => tip[lastOp'.pip] # NoTip
            /\ lastOp'.op \in {"drop_tip", "return_tip"} =>
                    tip'[lastOp'.pip] = NoTip
            /\ lastOp'.op \notin {"pick_up_tip", "drop_tip", "return_tip"} =>
                    tip' = tip ]_vars
    /\ [](done => (tip.p300 = NoTip /\ tip.p10 = NoTip))

\* done is true after a run of three columns and two wash cycles, in which
\* tips were picked up, returned, picked up again and dropped
C15_Witness ==
    /\ done
    /\ columns = 3
    /\ cleanings = 2
    /\ j = 2
    /\ tip = [p300 |-> NoTip, p10 |-> NoTip]
    /\ visited["transfer"] = AllColumns

\* the racks the pick-ups that name no position may use
BulkRacks == {"tiprack_8", "tiprack_9", "tiprack_10"}

\* C16: no pick-up is left without a tip to take; every pick-up takes its tip
\* from a position that holds one; the p300 pick-ups that name no position
\* take theirs from racks 8, 9 and 10; the pick-ups of the wash cycles take
\* the tip of the column they name in rack 7, which is the only use made of
\* that rack.
C16_TipSupply ==
    /\ [](fault # "out_of_tips")
    /\ [][ (issued' > issued /\ lastOp'.op = "pick_up_tip") =>
            LET t == tip'[lastOp'.pip]
            IN  /\ racks[t.from][t.col] \in {"fresh", "returned"}
                /\ (lastOp'.pip = "p300" /\ lastOp'.lw = "-") =>
                        (t.from \in BulkRacks /\ racks[t.from][t.col] = "fresh")
                /\ lastOp'.pip = "p10" => t.from = "tiprack_11"
                /\ lastOp'.lw = "tiprack_7" =>
                        /\ lastOp'.phase = "WashCycles"
                        /\ t = [from |-> "tiprack_7", col |-> lastOp'.col] ]_vars
    /\ [][ racks'["tiprack_7"] # racks["tiprack_7"] =>
                lastOp'.phase = "WashCycles" ]_vars

\* in a run of twelve columns the add step of the second wash cycle has
\* picked up the returned tip of column 12 of rack 7; racks 8 and 9 are used
\* up and rack 10 is still full
C16_Witness ==
    /\ columns = PlateColumns
    /\ j = 2
    /\ lastOp.op = "pick_up_tip"
    /\ lastOp.lw = "tiprack_7"
    /\ lastOp.col = PlateColumns
    /\ tip.p300 = [from |-> "tiprack_7", col |-> PlateColumns]
    /\ seqPc = "wash_aspirate"
    /\ FreshColumns("tiprack_8") = {}
    /\ FreshColumns("tiprack_9") = {}
    /\ FreshColumns("tiprack_10") = 1..PlateColumns
    /\ FreshColumns("tiprack_7") = {}

\* C17: when the Monitor thread has ended and done is true, paused is false,
\* the driver is not paused and every pause the Monitor called has been
\* followed by a resume.
C17_NeverLeftPaused ==
    (done /\ MonitorEnded) =>
        (~paused /\ ~driverPaused /\ outstanding = 0)

\* the return_tip that ends the add step of a wash cycle
LastAddition ==
    Op("WashCycles", "return_tip", "p300", "tiprack_7", columns, 0, 0)

\* the delay of a wash cycle
Settling == [Op("WashCycles", "delay", "-", "-", 0, 0, 0) EXCEPT !.n = 30]

\* C18: a delay of a wash cycle is one of 30 seconds, is issued with fewer
\* than 4 columns only, and follows the return of the tip of the cycle's last
\* addition directly; the first pick-up of a cycle's removal step follows that
\* delay directly when there are fewer than 4 columns, and the last addition
\* directly when there are 4 or more.  So there is one delay in each cycle of
\* a run of 1..3 columns and none in a run of 4..12.
C18_SettlingDelay ==
    [][ issued' > issued =>
        /\ (lastOp'.phase = "WashCycles" /\ lastOp'.op = "delay") =>
                /\ lastOp' = Settling
                /\ columns < 4
                /\ lastOp = LastAddition
                /\ visited["washAdd"] = AllColumns
                /\ visited["washRemove"] = << >>
        /\ (lastOp'.phase = "WashCycles" /\ lastOp'.op = "pick_up_tip"
                /\ seqPc = "rem_pick" /\ k = 1) =>
                /\ visited["washAdd"] = AllColumns
                /\ lastOp = IF columns < 4 THEN Settling ELSE LastAddition ]_vars

\* the removal of the second wash cycle has begun after the delay, in a run
\* of 3 columns
C18_Witness ==
    /\ columns = 3
    /\ j = 2
    /\ seqPc = "rem_pick"
    /\ k = 1
    /\ lastOp = Settling


-----------------------------------------------------------------------------
=============================================================================
